---------------------------- MODULE Spec2Model ----------------------------
(***************************************************************************)
(* A model of unified_diff_patcher.py: the text helpers (line ending       *)
(* detection and normalisation), parse_patch, apply_hunks and the          *)
(* orchestration loop of main.                                             *)
(*                                                                         *)
(* Text is a sequence of characters.  A character is a one-element string, *)
(* except the three control characters that the code treats specially,     *)
(* which are written CR, LF and FF.                                        *)
(***************************************************************************)
EXTENDS Integers, Sequences, FiniteSets, TLC

CR == "CR"
LF == "LF"
\* A form feed: one of the characters other than CR and LF at which
\* str.splitlines ends a line.
FF == "FF"

CRLF_ENDING == <<CR, LF>>
LF_ENDING == <<LF>>
CR_ENDING == <<CR>>

Digits == <<"0", "1", "2", "3", "4", "5", "6", "7", "8", "9">>

IsDigit(c) == \E i \in 1..10 : Digits[i] = c

DigitValue(c) == (CHOOSE i \in 1..10 : Digits[i] = c) - 1

\* str.isspace for the characters of the model.
IsSpace(c) == c \in {" ", CR, LF, FF}

---------------------------------------------------------------------------
(* Generic string operations of Python used by the code.                   *)

\* s[n:] for n >= 0 (0-based slice to the end).
DropFirst(s, n) == SubSeq(s, n + 1, Len(s))

\* s[:-1]
DropLast(s) == SubSeq(s, 1, Len(s) - 1)

\* s.startswith(p)
StartsWith(s, p) == Len(s) >= Len(p) /\ SubSeq(s, 1, Len(p)) = p

\* s.endswith(p)
EndsWith(s, p) ==
  Len(s) >= Len(p) /\ SubSeq(s, Len(s) - Len(p) + 1, Len(s)) = p

RECURSIVE LStrip(_)
LStrip(s) ==
  IF s # <<>> /\ IsSpace(Head(s)) THEN LStrip(Tail(s)) ELSE s

RECURSIVE RStrip(_)
RStrip(s) ==
  IF s # <<>> /\ IsSpace(s[Len(s)]) THEN RStrip(DropLast(s)) ELSE s

\* s.strip()
Strip(s) == RStrip(LStrip(s))

\* s.count(p) for a one- or two-character p: non-overlapping occurrences.
RECURSIVE Count(_, _)
Count(s, p) ==
  IF Len(s) < Len(p) THEN 0
  ELSE IF StartsWith(s, p) THEN 1 + Count(DropFirst(s, Len(p)), p)
  ELSE Count(Tail(s), p)

\* s.replace(old, new): left to right, non-overlapping.
RECURSIVE Replace(_, _, _)
Replace(s, old, new) ==
  IF s = <<>> THEN <<>>
  ELSE IF StartsWith(s, old) THEN new \o Replace(DropFirst(s, Len(old)), old, new)
  ELSE <<Head(s)>> \o Replace(Tail(s), old, new)

\* The length of the line boundary at the start of s, as str.splitlines
\* sees it: CR LF is one boundary of two characters; 0 when there is none.
BoundaryLen(s) ==
  IF s = <<>> THEN 0
  ELSE IF StartsWith(s, CRLF_ENDING) THEN 2
  ELSE IF Head(s) \in {CR, LF, FF} THEN 1
  ELSE 0

\* s.splitlines(keepends=True), with the line being collected in cur.
RECURSIVE SplitFrom(_, _)
SplitFrom(s, cur) ==
  IF s = <<>> THEN (IF cur = <<>> THEN <<>> ELSE <<cur>>)
  ELSE LET b == BoundaryLen(s) IN
       IF b > 0 THEN <<cur \o SubSeq(s, 1, b)>> \o SplitFrom(DropFirst(s, b), <<>>)
       ELSE SplitFrom(Tail(s), Append(cur, Head(s)))

splitlines(s) == SplitFrom(s, <<>>)

\* "".join(lines), what f.writelines(lines) puts in the file.
RECURSIVE Join(_)
Join(lines) == IF lines = <<>> THEN <<>> ELSE Head(lines) \o Join(Tail(lines))

---------------------------------------------------------------------------
(* Line endings.                                                           *)

\* A detection that prefers LF to CRLF when their counts are equal.
detect_line_ending_preferLF(content, linesep) ==
  IF content = <<>> THEN linesep
  ELSE LET crlf_count == Count(content, CRLF_ENDING)
           lf_count == Count(content, LF_ENDING) - crlf_count
           cr_count == Count(content, CR_ENDING) - crlf_count
       IN IF lf_count >= crlf_count /\ lf_count >= cr_count THEN LF_ENDING
          ELSE IF crlf_count >= cr_count THEN CRLF_ENDING
          ELSE CR_ENDING

\* detect_line_ending; linesep is os.linesep of the platform.
detect_line_ending(content, linesep) ==
  IF content = <<>> THEN linesep
  ELSE LET crlf_count == Count(content, CRLF_ENDING)
           lf_count == Count(content, LF_ENDING) - crlf_count
           cr_count == Count(content, CR_ENDING) - crlf_count
       IN IF crlf_count >= lf_count /\ crlf_count >= cr_count THEN CRLF_ENDING
          ELSE IF lf_count >= cr_count THEN LF_ENDING
          ELSE IF cr_count > 0 THEN CR_ENDING
          ELSE linesep

normalize_line_endings(content, target_ending) ==
  LET c1 == Replace(content, CRLF_ENDING, LF_ENDING)
      c2 == Replace(c1, CR_ENDING, LF_ENDING)
  IN IF target_ending # LF_ENDING THEN Replace(c2, LF_ENDING, target_ending)
     ELSE c2

lines_with_preserved_endings(content, original_ending) ==
  LET normalized == normalize_line_endings(content, LF_ENDING)
      lines == splitlines(normalized)
  IN IF original_ending # LF_ENDING
     THEN [i \in 1..Len(lines) |->
             IF EndsWith(lines[i], LF_ENDING)
             THEN Replace(lines[i], LF_ENDING, original_ending)
             ELSE lines[i]]
     ELSE lines

---------------------------------------------------------------------------
(* parse_patch.                                                            *)

\* The value of a record's 'new' before a '+++ ' line sets it.
None == <<"None">>

FILE_OLD_PREFIX == <<"-", "-", "-", " ">>
FILE_NEW_PREFIX == <<"+", "+", "+", " ">>
HUNK_PREFIX == <<"@", "@">>

\* The record that a '--- ' line opens.
NewPatch(line, patch_line_ending) ==
  [old |-> Strip(DropFirst(line, 4)), new |-> None, hunks |-> <<>>,
   patch_line_ending |-> patch_line_ending]

\* One iteration of the loop of parse_patch over a line.  st.current is
\* the empty sequence for None, or holds the one record being filled.
ParseLine(st, line, patch_line_ending) ==
  LET cur == st.current IN
  IF StartsWith(line, FILE_OLD_PREFIX)
  THEN [patches |-> st.patches \o cur,
        current |-> <<NewPatch(line, patch_line_ending)>>]
  ELSE IF StartsWith(line, FILE_NEW_PREFIX) /\ cur # <<>>
  THEN [st EXCEPT !.current[1].new = Strip(DropFirst(line, 4))]
  ELSE IF StartsWith(line, HUNK_PREFIX) /\ cur # <<>>
  THEN [st EXCEPT !.current[1].hunks =
                     Append(@, [header |-> line, lines |-> <<>>])]
  ELSE IF cur # <<>> /\ cur[1].hunks # <<>>
  THEN [st EXCEPT !.current[1].hunks[Len(cur[1].hunks)].lines =
                     Append(@, line)]
  ELSE st

RECURSIVE ParseLines(_, _, _)
ParseLines(st, lines, patch_line_ending) ==
  IF lines = <<>> THEN st
  ELSE ParseLines(ParseLine(st, Head(lines), patch_line_ending),
                  Tail(lines), patch_line_ending)

\* parse_patch, given the text read from diff_file.
parse_patch(content, linesep) ==
  LET patch_line_ending == detect_line_ending(content, linesep)
      normalized == normalize_line_endings(content, LF_ENDING)
      lines == splitlines(normalized)
      st == ParseLines([patches |-> <<>>, current |-> <<>>], lines,
                       patch_line_ending)
  IN st.patches \o st.current

\* strip_prefix: re.sub(r'^[ab]/', '', filename)
strip_prefix(filename) ==
  IF Len(filename) >= 2 /\ filename[1] \in {"a", "b"} /\ filename[2] = "/"
  THEN DropFirst(filename, 2)
  ELSE filename

---------------------------------------------------------------------------
(* apply_hunks.                                                            *)

\* The longest prefix of s made of digits: what \d+ or \d* takes.
RECURSIVE TakeDigits(_)
TakeDigits(s) ==
  IF s # <<>> /\ IsDigit(Head(s)) THEN <<Head(s)>> \o TakeDigits(Tail(s))
  ELSE <<>>

\* int(ds) for a non-empty sequence of digits.
RECURSIVE ToInt(_)
ToInt(ds) ==
  IF Len(ds) = 1 THEN DigitValue(ds[1])
  ELSE 10 * ToInt(DropLast(ds)) + DigitValue(ds[Len(ds)])

\* s without an optional leading comma: what ,? takes.
SkipComma(s) == IF s # <<>> /\ Head(s) = "," THEN Tail(s) ELSE s

NoMatch == [ok |-> FALSE, g1 |-> <<>>, g2 |-> <<>>, g3 |-> <<>>, g4 |-> <<>>]

\* re.match(r'@@ -(\d+),?(\d*) \+(\d+),?(\d*) @@', header): the pattern is
\* matched at the start of header; what follows it is not looked at.
MatchHeader(header) ==
  LET p1 == <<"@", "@", " ", "-">>
      p2 == <<" ", "+">>
      p3 == <<" ", "@", "@">>
  IN IF ~StartsWith(header, p1) THEN NoMatch ELSE
     LET s1 == DropFirst(header, 4)
         g1 == TakeDigits(s1)
         s2 == SkipComma(DropFirst(s1, Len(g1)))
         g2 == TakeDigits(s2)
         s3 == DropFirst(s2, Len(g2))
     IN IF g1 = <<>> \/ ~StartsWith(s3, p2) THEN NoMatch ELSE
        LET s4 == DropFirst(s3, 2)
            g3 == TakeDigits(s4)
            s5 == SkipComma(DropFirst(s4, Len(g3)))
            g4 == TakeDigits(s5)
            s6 == DropFirst(s5, Len(g4))
        IN IF g3 = <<>> \/ ~StartsWith(s6, p3) THEN NoMatch
           ELSE [ok |-> TRUE, g1 |-> g1, g2 |-> g2, g3 |-> g3, g4 |-> g4]

\* The four numbers of a matched header; an empty count group is 1.
old_start(m) == ToInt(m.g1)
old_count(m) == IF m.g2 # <<>> THEN ToInt(m.g2) ELSE 1
new_start(m) == ToInt(m.g3)
new_count(m) == IF m.g4 # <<>> THEN ToInt(m.g4) ELSE 1

\* The index at which a hunk is applied.
HunkIndex(start, offset) ==
  IF start = 0 THEN 0 + offset ELSE start - 1 + offset

\* ConvertLine without the conversion: the line keeps the LF that
\* parse_patch gave it.
ConvertLine_keepPatchEnding(line, line_ending) == DropFirst(line, 1)

\* A '+' or ' ' line of a hunk without its first character and with its
\* final LF, if it has one, replaced by line_ending.
ConvertLine(line, line_ending) ==
  LET patch_line == DropFirst(line, 1)
  IN IF EndsWith(patch_line, LF_ENDING)
     THEN DropLast(patch_line) \o line_ending
     ELSE patch_line

\* BuildNewLines with the context lines left out of the block, as the
\* deletions are.
RECURSIVE BuildNewLines_dropContext(_, _)
BuildNewLines_dropContext(lines, line_ending) ==
  IF lines = <<>> THEN <<>>
  ELSE LET line == Head(lines)
           rest == BuildNewLines_dropContext(Tail(lines), line_ending)
       IN IF StartsWith(line, <<"+">>)
          THEN <<ConvertLine(line, line_ending)>> \o rest
          ELSE rest

\* The replacement block of a hunk: the loop over hunk['lines'].
RECURSIVE BuildNewLines(_, _)
BuildNewLines(lines, line_ending) ==
  IF lines = <<>> THEN <<>>
  ELSE LET line == Head(lines)
           rest == BuildNewLines(Tail(lines), line_ending)
       IN IF StartsWith(line, <<"-">>) THEN rest
          ELSE IF StartsWith(line, <<"+">>) THEN <<ConvertLine(line, line_ending)>> \o rest
          ELSE IF StartsWith(line, <<" ">>) THEN <<ConvertLine(line, line_ending)>> \o rest
          ELSE rest

\* The bounds validation without its third test, the extent of the
\* removal.
OutOfRange_noExtent(index, count, len) == index < 0 \/ index > len

\* A bounds validation without the test for a negative index.
OutOfRange_noNegative(index, count, len) ==
  index > len \/ (count > 0 /\ index + count > len)

\* The bounds validation; len is len(patched).
OutOfRange(index, count, len) ==
  \/ index < 0
  \/ index > len
  \/ count > 0 /\ index + count > len

\* The context check: the for loop over range(old_count) from iteration i
\* on, with hunk_line_idx = hidx (0-based, as in the code).  It yields the
\* number of mismatch warnings, context_matches, and whether patched was
\* read at a position it does not have (an IndexError).
RECURSIVE ContextCheck(_, _, _, _, _, _, _)
ContextCheck(patched, index, count, hlines, i, hidx, warnings) ==
  LET done == [warnings |-> warnings, context_matches |-> TRUE, raised |-> FALSE]
  IN IF i >= count THEN done
     ELSE IF index + i >= Len(patched)
     THEN [done EXCEPT !.context_matches = FALSE]
     ELSE IF hidx >= Len(hlines) THEN done
     ELSE LET hunk_line == hlines[hidx + 1] IN
          IF StartsWith(hunk_line, <<" ">>) \/ StartsWith(hunk_line, <<"-">>)
          THEN IF index + i < 0 /\ index + i < -Len(patched)
               THEN [done EXCEPT !.raised = TRUE]
               ELSE LET expected == DropFirst(hunk_line, 1)
                        pos == IF index + i >= 0 THEN index + i + 1
                               ELSE Len(patched) + index + i + 1
                        actual == patched[pos]
                        mismatch ==
                          normalize_line_endings(expected, LF_ENDING)
                            # normalize_line_endings(actual, LF_ENDING)
                    IN ContextCheck(patched, index, count, hlines, i + 1, hidx + 1,
                                    IF mismatch THEN warnings + 1 ELSE warnings)
          ELSE IF StartsWith(hunk_line, <<"+">>)
          THEN ContextCheck(patched, index, count, hlines, i, hidx + 1, warnings)
          ELSE ContextCheck(patched, index, count, hlines, i + 1, hidx + 1, warnings)

\* A bound of a Python slice over a list of n items.
SliceIndex(i, n) ==
  IF i < 0 THEN (IF n + i < 0 THEN 0 ELSE n + i)
  ELSE IF i > n THEN n ELSE i

\* The splice one line late: patched[index + 1:index + 1 + count].
Splice_oneLate(patched, index, count, new_lines) ==
  LET lo == SliceIndex(index + 1, Len(patched))
      hi0 == SliceIndex(index + 1 + count, Len(patched))
      hi == IF hi0 < lo THEN lo ELSE hi0
  IN SubSeq(patched, 1, lo) \o new_lines \o SubSeq(patched, hi + 1, Len(patched))

\* patched[index:index + count] = new_lines
Splice(patched, index, count, new_lines) ==
  LET lo == SliceIndex(index, Len(patched))
      hi0 == SliceIndex(index + count, Len(patched))
      hi == IF hi0 < lo THEN lo ELSE hi0
  IN SubSeq(patched, 1, lo) \o new_lines \o SubSeq(patched, hi + 1, Len(patched))

\* The offset update without the lines removed: offset += len(new_lines).
NextOffset_ignoreCount(offset, new_lines, count) == offset + Len(new_lines)

\* offset += len(new_lines) - old_count
NextOffset(offset, new_lines, count) == offset + Len(new_lines) - count

\* How an iteration ends: nothing raised, or the exception.
NoError == "none"
InvalidHunkHeader == "ValueError: Invalid hunk header"
HunkOutOfRange == "ValueError: Hunk cannot be applied"
IndexErrorRaised == "IndexError"

\* The iteration with a strict context check: a mismatch between the
\* hunk and the lines it covers raises instead of warning.
ContextMismatch == "ValueError: context mismatch"

ApplyHunk_strict(patched, offset, hunk, line_ending) ==
  LET m == MatchHeader(hunk.header)
      unchanged == [raised |-> NoError, patched |-> patched, offset |-> offset,
                    index |-> 0, warnings |-> 0]
      index == HunkIndex(old_start(m), offset)
      new_lines == BuildNewLines(hunk.lines, line_ending)
      chk == ContextCheck(patched, index, old_count(m), hunk.lines, 0, 0, 0)
  IN IF ~m.ok THEN [unchanged EXCEPT !.raised = InvalidHunkHeader]
     ELSE IF OutOfRange(index, old_count(m), Len(patched))
     THEN [unchanged EXCEPT !.raised = HunkOutOfRange, !.index = index]
     ELSE IF chk.raised
     THEN [unchanged EXCEPT !.raised = IndexErrorRaised, !.index = index]
     ELSE IF chk.warnings > 0
     THEN [unchanged EXCEPT !.raised = ContextMismatch, !.index = index,
                            !.warnings = chk.warnings]
     ELSE [raised |-> NoError,
           patched |-> Splice(patched, index, old_count(m), new_lines),
           offset |-> NextOffset(offset, new_lines, old_count(m)),
           index |-> index,
           warnings |-> chk.warnings]

\* The iteration with a lenient header test: a hunk whose header does not
\* match is passed over instead of raising.
ApplyHunk_skipBadHeader(patched, offset, hunk, line_ending) ==
  LET m == MatchHeader(hunk.header)
      unchanged == [raised |-> NoError, patched |-> patched, offset |-> offset,
                    index |-> 0, warnings |-> 0]
      index == HunkIndex(old_start(m), offset)
      new_lines == BuildNewLines(hunk.lines, line_ending)
      chk == ContextCheck(patched, index, old_count(m), hunk.lines, 0, 0, 0)
  IN IF ~m.ok THEN unchanged
     ELSE IF OutOfRange(index, old_count(m), Len(patched))
     THEN [unchanged EXCEPT !.raised = HunkOutOfRange, !.index = index]
     ELSE IF chk.raised
     THEN [unchanged EXCEPT !.raised = IndexErrorRaised, !.index = index]
     ELSE [raised |-> NoError,
           patched |-> Splice(patched, index, old_count(m), new_lines),
           offset |-> NextOffset(offset, new_lines, old_count(m)),
           index |-> index,
           warnings |-> chk.warnings]

\* One iteration of the loop of apply_hunks over a hunk.
ApplyHunk(patched, offset, hunk, line_ending) ==
  LET m == MatchHeader(hunk.header)
      unchanged == [raised |-> NoError, patched |-> patched, offset |-> offset,
                    index |-> 0, warnings |-> 0]
  IN IF ~m.ok THEN [unchanged EXCEPT !.raised = InvalidHunkHeader]
     ELSE LET index == HunkIndex(old_start(m), offset)
              new_lines == BuildNewLines(hunk.lines, line_ending)
          IN IF OutOfRange(index, old_count(m), Len(patched))
             THEN [unchanged EXCEPT !.raised = HunkOutOfRange, !.index = index]
             ELSE LET chk == ContextCheck(patched, index, old_count(m),
                                          hunk.lines, 0, 0, 0)
                  IN IF chk.raised
                     THEN [unchanged EXCEPT !.raised = IndexErrorRaised,
                                            !.index = index]
                     ELSE [raised |-> NoError,
                           patched |-> Splice(patched, index, old_count(m), new_lines),
                           offset |-> NextOffset(offset, new_lines, old_count(m)),
                           index |-> index,
                           warnings |-> chk.warnings]

\* apply_hunks from the state (patched, offset) on, over the hunks left.
RECURSIVE ApplyFrom(_, _, _, _)
ApplyFrom(patched, offset, hunks, line_ending) ==
  IF hunks = <<>> THEN [raised |-> NoError, patched |-> patched]
  ELSE LET r == ApplyHunk(patched, offset, Head(hunks), line_ending)
       IN IF r.raised # NoError THEN [raised |-> r.raised, patched |-> <<>>]
          ELSE ApplyFrom(r.patched, r.offset, Tail(hunks), line_ending)

apply_hunks(original_lines, hunks, line_ending) ==
  ApplyFrom(original_lines, 0, hunks, line_ending)

---------------------------------------------------------------------------
(* main: the files and the helpers of its loop.                            *)

\* str(n) for n >= 0.
RECURSIVE IntToStr(_)
IntToStr(n) ==
  IF n < 10 THEN <<Digits[n + 1]>>
  ELSE IntToStr(n \div 10) \o <<Digits[(n % 10) + 1]>>

\* The largest i with s[i] = c, or 0.
LastIndexOf(s, c) ==
  LET hits == {i \in 1..Len(s) : s[i] = c}
  IN IF hits = {} THEN 0 ELSE CHOOSE i \in hits : \A j \in hits : j <= i

\* os.path.splitext: the extension starts at the last dot of the last
\* path component, unless only dots precede it there.
Splitext(path) ==
  LET sepIndex == LastIndexOf(path, "/")
      dotIndex == LastIndexOf(path, ".")
  IN IF dotIndex > sepIndex
        /\ \E k \in (sepIndex + 1)..(dotIndex - 1) : path[k] # "."
     THEN <<SubSeq(path, 1, dotIndex - 1), SubSeq(path, dotIndex, Len(path))>>
     ELSE <<path, <<>>>>

\* f"{counter:03d}"
Format03d(counter) ==
  LET ds == IntToStr(counter)
  IN IF Len(ds) >= 3 THEN ds
     ELSE IF Len(ds) = 2 THEN <<"0">> \o ds
     ELSE <<"0", "0">> \o ds

NumberedName(original, counter) ==
  LET parts == Splitext(original)
  IN parts[1] \o <<".">> \o Format03d(counter) \o parts[2]

\* The directory of the originals, os.path.join(base_dir, ''): it exists
\* and cannot be read as a file.
BaseDir == <<>>

\* os.path.exists; the file system fs maps every existing file to what
\* it holds.
Exists(fs, path) == path = BaseDir \/ path \in DOMAIN fs

\* next_numbered_filename: the loop from counter on.
RECURSIVE NextNumberedFrom(_, _, _)
NextNumberedFrom(fs, original, counter) ==
  IF ~Exists(fs, NumberedName(original, counter))
  THEN NumberedName(original, counter)
  ELSE NextNumberedFrom(fs, original, counter + 1)

\* An allocation that returns the first numbered name whether or not it
\* exists.
next_numbered_filename_first(fs, original) == NumberedName(original, 1)

next_numbered_filename(fs, original) == NextNumberedFrom(fs, original, 1)

\* open(original_path).read() raises for the directory and for a file
\* that cannot be read or decoded.
ReadRaises(fs, path) == path = BaseDir \/ ~fs[path].readable

\* The try block of main: read the original, detect its style, split it
\* and apply the hunks.  raised is NoError or the exception caught.
ReadError == "OSError or UnicodeDecodeError"

TryPatch(fs, path, hunks, linesep) ==
  IF ReadRaises(fs, path)
  THEN [raised |-> ReadError, patched |-> <<>>, line_ending |-> <<>>]
  ELSE LET original_content == fs[path].content
           le == detect_line_ending(original_content, linesep)
           lines == lines_with_preserved_endings(original_content, le)
           r == apply_hunks(lines, hunks, le)
       IN [raised |-> r.raised, patched |-> r.patched, line_ending |-> le]

\* An except clause that reports the error without counting it.
OnPatchError_uncounted(counts) == counts

\* What the except clause of the try block does with the totals.
OnPatchError(counts) == [counts EXCEPT !.errors = @ + 1]

\* The except clause leaving the output file allocated: the next numbered
\* name is created, empty.
FilesOnPatchError_allocate(fs, path, r) ==
  [q \in DOMAIN fs \cup {next_numbered_filename(fs, path)} |->
     IF q \in DOMAIN fs THEN fs[q] ELSE [content |-> <<>>, readable |-> TRUE]]

\* The file system after the try block raised with the result r: the except
\* clause prints, counts and continues, and nothing is written.
FilesOnPatchError(fs, path, r) == fs

\* A file as the file system holds it.
File(content, readable) == [content |-> content, readable |-> readable]

\* fs after open(new_name, 'w') and f.writelines(lines).
WriteFile(fs, new_name, lines) ==
  [q \in DOMAIN fs \cup {new_name} |->
     IF q = new_name THEN File(Join(lines), TRUE) ELSE fs[q]]

\* A dry run that writes the file it announces.
DryRunFiles_write(fs, new_name, lines) == WriteFile(fs, new_name, lines)

\* fs after the branch `if args.dry_run`: the name and the lines are
\* printed, nothing is opened.
DryRunFiles(fs, new_name, lines) == fs

---------------------------------------------------------------------------
(* The inputs: original files and patch texts.                             *)

\* The most lines an original file has.
MaxLines == 3
\* The most hunks apply_hunks is given for one file.
MaxHunks == 2

Endings == {LF_ENDING, CRLF_ENDING, CR_ENDING}

\* os.linesep: POSIX or Windows.
Platforms == {LF_ENDING, CRLF_ENDING}

\* The text of the i-th line of an original file.
OrigTexts == <<"a", "b", "c", "d", "e", "f", "g", "h">>

\* An original file of n lines: the first line ends with e1, the others
\* with e, and the last line has no terminator unless lastTerm.
RECURSIVE OrigFrom(_, _, _, _, _)
OrigFrom(i, n, e1, e, lastTerm) ==
  IF i > n THEN <<>>
  ELSE <<OrigTexts[i]>>
       \o (IF i = n /\ ~lastTerm THEN <<>> ELSE IF i = 1 THEN e1 ELSE e)
       \o OrigFrom(i + 1, n, e1, e, lastTerm)

OrigContents ==
  {OrigFrom(1, n, e1, e, t) :
     n \in 0..MaxLines, e1 \in Endings, e \in Endings, t \in BOOLEAN}

\* A count that a hunk header leaves out.
Omitted == -1

RangeText(start, count) ==
  IntToStr(start) \o (IF count = Omitted THEN <<>> ELSE <<",">> \o IntToStr(count))

\* The text of a well-formed hunk header, without its terminator.
HeaderText(os, oc, ns, nc) ==
  <<"@", "@", " ", "-">> \o RangeText(os, oc) \o <<" ", "+">>
    \o RangeText(ns, nc) \o <<" ", "@", "@">>

\* Lines that start with @@ and do not match the pattern of apply_hunks.
MalformedHeaders ==
  {<<"@", "@", " ", "-", "x", " ", "+", "1", " ", "@", "@">>,
   <<"@", "@", " ", "-", "1", " ", "+", "1">>}

\* The lines of hunk bodies: an addition, a context line, a deletion (both
\* with the text of the original's second line) and the marker line that
\* diff writes after a line without terminator.
ADD == <<"+", "x">>
CTX == <<" ", "b">>
DEL == <<"-", "b">>
MARK == <<"\\", " ", "N">>

\* The shapes of hunks, each an old-count and a body.  Old-count 0: pure
\* insertions; old-count left out (1): one line replaced, kept, deleted or
\* followed by an addition, also with no body line for it; old-count 2:
\* two lines deleted, or fewer body lines than the count.
HunkShapes ==
  {<<0, <<>>>>, <<0, <<ADD>>>>, <<0, <<ADD, ADD>>>>,
   <<Omitted, <<>>>>, <<Omitted, <<ADD>>>>, <<Omitted, <<CTX>>>>,
   <<Omitted, <<DEL>>>>, <<Omitted, <<CTX, ADD>>>>, <<Omitted, <<DEL, MARK, ADD>>>>,
   <<2, <<DEL, DEL>>>>, <<2, <<DEL>>>>, <<2, <<CTX, ADD>>>>}

\* Old-start from the sentinel 0 to the last line of the longest original
\* (one past the end of the shorter ones).
OldStarts == 0..MaxLines

RECURSIVE JoinWith(_, _)
JoinWith(lines, e) ==
  IF lines = <<>> THEN <<>> ELSE Head(lines) \o e \o JoinWith(Tail(lines), e)

\* The text of a patch for the file f with one hunk header and body, its
\* lines ended by e; the last line has no terminator unless lastTerm.
PatchText(header, body, e, lastTerm) ==
  LET lines == <<FILE_OLD_PREFIX \o <<"a", "/", "f">>,
                 FILE_NEW_PREFIX \o <<"b", "/", "f">>, header>> \o body
      text == JoinWith(lines, e)
  IN IF lastTerm THEN text ELSE SubSeq(text, 1, Len(text) - Len(e))

\* Patch texts in the three terminator styles: every shape at every
\* old-start, the malformed headers, and additions whose line, the last
\* of the text, has no terminator.
PatchTexts ==
  {PatchText(HeaderText(os, sh[1], 1, Omitted), sh[2], e, TRUE) :
     os \in OldStarts, sh \in HunkShapes, e \in Endings}
  \cup {PatchText(h, <<ADD>>, e, TRUE) : h \in MalformedHeaders, e \in Endings}
  \cup {PatchText(HeaderText(os, oc, 1, Omitted), <<ADD>>, e, FALSE) :
     os \in OldStarts, oc \in {0, Omitted}, e \in Endings}

RECURSIVE AllHunks(_)
AllHunks(records) ==
  IF records = <<>> THEN {}
  ELSE {Head(records).hunks[i] : i \in 1..Len(Head(records).hunks)}
       \cup AllHunks(Tail(records))

\* Every hunk that parse_patch yields for one of the patch texts.
ParsedHunks ==
  UNION {AllHunks(parse_patch(t, linesep)) : t \in PatchTexts, linesep \in Platforms}

---------------------------------------------------------------------------
(* apply_hunks as a state machine: one step per iteration of its loop.     *)

VARIABLES
  line_ending,     \* the argument line_ending: the original's detected style
  original_lines,  \* the argument original_lines
  patched,         \* the accumulating sequence
  offset,          \* the cumulative offset
  hunk,            \* the hunk of the iteration just run (<<>> at the loop head)
  index,           \* the index that iteration computed
  warnings,        \* the mismatch warnings of that iteration's context check
  applied,         \* the number of hunks applied so far
  pc,              \* "loop", "iterated", "returned" or "raised"
  raised,          \* the exception that ended apply_hunks, or NoError
  patch_text,      \* main: the content of the patch file
  os_linesep,      \* main: os.linesep of the platform
  dry_run,         \* main: args.dry_run
  files,           \* main: the files under base_dir, by path
  patches,         \* main: the list parse_patch returned
  next_record,     \* main: the position of `for p in patches`
  totals,          \* main: total_processed, _patched, _skipped, _errors
  outcome,         \* main: what the iteration just run came to
  mpc              \* main: "start", "loop", "summary", "no_patches", "crashed"

applyVars == <<line_ending, original_lines, patched, offset, hunk, index,
               warnings, applied, pc, raised>>

mainVars == <<patch_text, os_linesep, dry_run, files, patches, next_record,
              totals, outcome, mpc>>

vars == <<applyVars, mainVars>>

ZeroTotals == [processed |-> 0, patched |-> 0, skipped |-> 0, errors |-> 0]

NoOutcome == [kind |-> "none", error |-> NoError]

\* main is not running: apply_hunks is studied on its own.
MainIdle ==
  /\ patch_text = <<>>
  /\ os_linesep = LF_ENDING
  /\ dry_run = FALSE
  /\ files = <<>>
  /\ patches = <<>>
  /\ next_record = 1
  /\ totals = ZeroTotals
  /\ outcome = NoOutcome
  /\ mpc = "idle"

\* main reads an original, detects its style and splits it, then calls
\* apply_hunks, which copies original_lines and sets offset to 0.
InitApply ==
  /\ \E content \in OrigContents, linesep \in Platforms :
       /\ line_ending = detect_line_ending(content, linesep)
       /\ original_lines = lines_with_preserved_endings(content, line_ending)
  /\ patched = original_lines
  /\ offset = 0
  /\ hunk = <<>>
  /\ index = 0
  /\ warnings = 0
  /\ applied = 0
  /\ pc = "loop"
  /\ raised = NoError
  /\ MainIdle

\* One iteration of `for hunk in hunks`.  The list is an argument of
\* apply_hunks; its next element is chosen when the iteration starts.
NextHunk ==
  /\ pc = "loop"
  /\ applied < MaxHunks
  /\ \E h \in ParsedHunks :
       LET r == ApplyHunk(patched, offset, h, line_ending) IN
       /\ hunk' = h
       /\ index' = r.index
       /\ warnings' = r.warnings
       /\ raised' = r.raised
       /\ patched' = r.patched
       /\ offset' = r.offset
       /\ applied' = IF r.raised = NoError THEN applied + 1 ELSE applied
       /\ pc' = IF r.raised = NoError THEN "iterated" ELSE "raised"
  /\ UNCHANGED <<line_ending, original_lines, mainVars>>

\* Back at the head of the loop: the locals of the finished iteration are
\* dead (the next iteration or the return never reads them).
LoopHead ==
  /\ pc = "iterated"
  /\ pc' = "loop"
  /\ hunk' = <<>>
  /\ index' = 0
  /\ warnings' = 0
  /\ UNCHANGED <<line_ending, original_lines, patched, offset, applied, raised,
                 mainVars>>

\* The list of hunks is exhausted: return patched.
Return ==
  /\ pc = "loop"
  /\ pc' = "returned"
  /\ UNCHANGED <<line_ending, original_lines, patched, offset, hunk, index,
                 warnings, applied, raised, mainVars>>

Next == NextHunk \/ LoopHead \/ Return

Spec == InitApply /\ [][Next]_vars

---------------------------------------------------------------------------
(* main as a state machine: the parse, one step per iteration of           *)
(* `for p in patches`, and the summary.                                    *)

MaxRecords == 2

\* The names of the originals: one without and one with an extension.
NameF == <<"f">>
NameG == <<"g", ".", "t">>

\* The sections of a patch text, by what their record comes to.
RecordKinds == {"ok", "range", "malformed", "partial", "nohunks", "nonew",
                "noname"}

OkHunkLines == <<<<"@", "@", " ", "-", "1", " ", "+", "1", " ", "@", "@">>,
                 <<"-", "a">>, <<"+", "x">>>>

\* Old-start 3 in an original of two lines.
RangeHunkLines == <<<<"@", "@", " ", "-", "3", " ", "+", "3", " ", "@", "@">>,
                    <<"+", "x">>>>

MalformedHunkLines == <<<<"@", "@", " ", "-", "x", " ", "+", "1", " ", "@", "@">>,
                        <<"+", "x">>>>

SectionLines(kind, name) ==
  (IF kind = "noname" THEN <<FILE_OLD_PREFIX>>
   ELSE <<FILE_OLD_PREFIX \o <<"a", "/">> \o name>>)
  \o (IF kind = "nonew" THEN <<>>
      ELSE <<FILE_NEW_PREFIX \o <<"b", "/">> \o name>>)
  \o (CASE kind = "range" -> RangeHunkLines
        [] kind = "malformed" -> MalformedHunkLines
        [] kind = "partial" -> OkHunkLines \o RangeHunkLines
        [] kind = "nohunks" -> <<>>
        [] OTHER -> OkHunkLines)

\* A section of every kind for f; a good and a malformed one for g.t.
Sections ==
  {JoinWith(SectionLines(k, NameF), LF_ENDING) : k \in RecordKinds}
  \cup {JoinWith(SectionLines(k, NameG), LF_ENDING) : k \in {"ok", "malformed"}}

\* The patch texts of n sections.
RECURSIVE TextsOf(_)
TextsOf(n) ==
  IF n = 0 THEN {<<>>}
  ELSE {t \o sec : t \in TextsOf(n - 1), sec \in Sections}

MainPatchTexts == UNION {TextsOf(n) : n \in 0..MaxRecords}

\* The originals: f is missing, unreadable, or holds two lines in LF or
\* CRLF style; g.t is missing or holds two lines; f.001 may exist already.
ContentLF == <<"a", LF, "b", LF>>
ContentCRLF == <<"a", CR, LF, "b", CR, LF>>

FileStatesF == {<<>>, <<File(ContentLF, TRUE)>>, <<File(ContentCRLF, TRUE)>>,
                <<File(ContentLF, FALSE)>>}
FileStatesG == {<<>>, <<File(ContentLF, TRUE)>>}
FileStatesF1 == {<<>>, <<File(<<"o", LF>>, TRUE)>>}

FileSystem(f, g, f1) ==
  LET present == (IF f = <<>> THEN {} ELSE {NameF})
                 \cup (IF g = <<>> THEN {} ELSE {NameG})
                 \cup (IF f1 = <<>> THEN {} ELSE {NumberedName(NameF, 1)})
  IN [q \in present |->
        IF q = NameF THEN f[1] ELSE IF q = NameG THEN g[1] ELSE f1[1]]

\* apply_hunks is called inside the iteration of main.
ApplyIdle ==
  /\ line_ending = <<>>
  /\ original_lines = <<>>
  /\ patched = <<>>
  /\ offset = 0
  /\ hunk = <<>>
  /\ index = 0
  /\ warnings = 0
  /\ applied = 0
  /\ pc = "idle"
  /\ raised = NoError

\* detect_line_ending reads os.linesep for empty content only.  The
\* originals here are not empty, and the empty patch text has no record
\* to carry its patch_line_ending: one platform stands for both.
InitMain ==
  /\ patch_text \in MainPatchTexts
  /\ os_linesep = LF_ENDING
  /\ dry_run \in BOOLEAN
  /\ \E f \in FileStatesF, g \in FileStatesG, f1 \in FileStatesF1 :
       files = FileSystem(f, g, f1)
  /\ patches = <<>>
  /\ next_record = 1
  /\ totals = ZeroTotals
  /\ outcome = NoOutcome
  /\ mpc = "start"
  /\ ApplyIdle

\* patches = parse_patch(args.patchfile); `if not patches: return`.
MainParse ==
  /\ mpc = "start"
  /\ patches' = parse_patch(patch_text, os_linesep)
  /\ mpc' = IF patches' = <<>> THEN "no_patches" ELSE "loop"
  /\ UNCHANGED <<patch_text, os_linesep, dry_run, files, next_record, totals,
                 outcome, applyVars>>

\* re.sub raises TypeError for None, outside the try blocks of main.
UncaughtTypeError == "TypeError: expected string or bytes-like object"
OpenForWriteError == "OSError: open for writing"
WriteError == "OSError: write"

\* What the operating system does with open(new_name, 'w') and writelines.
WriteResults == {"written", "open fails", "write fails"}

\* The lines that reached the file when writelines raised.
WrittenBefore(lines) == {SubSeq(lines, 1, k) : k \in 0..(Len(lines) - 1)} \cup {<<>>}

\* One iteration of `for p in patches`.
MainIteration ==
  /\ mpc = "loop"
  /\ next_record <= Len(patches)
  /\ LET p == patches[next_record] IN
     IF p.new = None
     THEN /\ mpc' = "crashed"
          /\ outcome' = [kind |-> "crashed", error |-> UncaughtTypeError]
          /\ UNCHANGED <<files, next_record, totals>>
     ELSE
       LET original_path == strip_prefix(p.old)
           counted == [totals EXCEPT !.processed = @ + 1]
       IN /\ mpc' = "loop"
          /\ next_record' = next_record + 1
          /\ IF ~Exists(files, original_path)
             THEN /\ totals' = [counted EXCEPT !.skipped = @ + 1]
                  /\ outcome' = [kind |-> "skipped", error |-> NoError]
                  /\ UNCHANGED files
             ELSE
               \E r \in {TryPatch(files, original_path, p.hunks, os_linesep)} :
               IF r.raised # NoError
               THEN /\ totals' = OnPatchError(counted)
                    /\ outcome' = [kind |-> "error", error |-> r.raised]
                    /\ files' = FilesOnPatchError(files, original_path, r)
               ELSE
                 LET new_name == next_numbered_filename(files, original_path) IN
                 IF dry_run
                 THEN /\ totals' = counted
                      /\ outcome' = [kind |-> "dry run", error |-> NoError]
                      /\ files' = DryRunFiles(files, new_name, r.patched)
                 ELSE
                   \E w \in WriteResults :
                     CASE w = "written" ->
                            /\ files' = WriteFile(files, new_name, r.patched)
                            /\ totals' = [counted EXCEPT !.patched = @ + 1]
                            /\ outcome' = [kind |-> "patched", error |-> NoError]
                       [] w = "open fails" ->
                            /\ UNCHANGED files
                            /\ totals' = [counted EXCEPT !.errors = @ + 1]
                            /\ outcome' = [kind |-> "write error",
                                           error |-> OpenForWriteError]
                       [] w = "write fails" ->
                            /\ \E part \in WrittenBefore(r.patched) :
                                 files' = WriteFile(files, new_name, part)
                            /\ totals' = [counted EXCEPT !.errors = @ + 1]
                            /\ outcome' = [kind |-> "write error",
                                           error |-> WriteError]
  /\ UNCHANGED <<patch_text, os_linesep, dry_run, patches, applyVars>>

\* The loop is over: print the summary.
MainSummary ==
  /\ mpc = "loop"
  /\ next_record > Len(patches)
  /\ mpc' = "summary"
  /\ UNCHANGED <<patch_text, os_linesep, dry_run, files, patches, next_record,
                 totals, outcome, applyVars>>

NextMain == MainParse \/ MainIteration \/ MainSummary

SpecMain == InitMain /\ [][NextMain]_vars

---------------------------------------------------------------------------
(* parse_patch and the replacement block of apply_hunks on the text of one *)
(* file section: the text is parsed, then the block of its first hunk is   *)
(* built.                                                                  *)

MaxBody == 3

\* A hunk header for the second line of the original.
SecondHeader == <<"@", "@", " ", "-", "2", " ", "+", "2", " ", "@", "@">>

\* The lines that follow the first hunk header: a deletion, an addition
\* and a context line; the deletion of the line "-- a" and the addition
\* of the line "++ y", as diff writes them; the marker line; and the
\* header of a second hunk.
BodyItems ==
  {<<"-", "a">>, <<"+", "x">>, <<" ", "b">>,
   <<"-", "-", "-", " ", "a">>, <<"+", "+", "+", " ", "y">>,
   MARK, SecondHeader}

RECURSIVE BodiesOf(_)
BodiesOf(n) ==
  IF n = 0 THEN {<<>>}
  ELSE {Append(b, item) : b \in BodiesOf(n - 1), item \in BodyItems}

\* The text of the section of f: its two file-header lines, a hunk header
\* and the lines of body.
SectionText(body) ==
  JoinWith(<<FILE_OLD_PREFIX \o <<"a", "/">> \o NameF,
             FILE_NEW_PREFIX \o <<"b", "/">> \o NameF,
             OkHunkLines[1]>> \o body, LF_ENDING)

ParseTexts == {SectionText(body) : body \in UNION {BodiesOf(n) : n \in 0..MaxBody}}

InitParse ==
  /\ patch_text \in ParseTexts
  /\ os_linesep = LF_ENDING
  /\ line_ending \in Endings
  /\ patches = <<>>
  /\ patched = <<>>
  /\ mpc = "text"
  /\ dry_run = FALSE
  /\ files = <<>>
  /\ next_record = 1
  /\ totals = ZeroTotals
  /\ outcome = NoOutcome
  /\ original_lines = <<>>
  /\ offset = 0
  /\ hunk = <<>>
  /\ index = 0
  /\ warnings = 0
  /\ applied = 0
  /\ pc = "idle"
  /\ raised = NoError

\* patches = parse_patch(args.patchfile)
ParseText ==
  /\ mpc = "text"
  /\ patches' = parse_patch(patch_text, os_linesep)
  /\ mpc' = "parsed"
  /\ UNCHANGED <<patch_text, os_linesep, dry_run, files, next_record, totals,
                 outcome, applyVars>>

\* The loop over hunk['lines'] of apply_hunks, on the first hunk of the
\* first record: patched holds new_lines.
BuildBlock ==
  /\ mpc = "parsed"
  /\ patched' = BuildNewLines(patches[1].hunks[1].lines, line_ending)
  /\ mpc' = "built"
  /\ UNCHANGED <<patch_text, os_linesep, dry_run, files, patches, next_record,
                 totals, outcome, line_ending, original_lines, offset, hunk,
                 index, warnings, applied, pc, raised>>

NextParse == ParseText \/ BuildBlock

SpecParse == InitParse /\ [][NextParse]_vars

---------------------------------------------------------------------------
(* detect_line_ending on its own: a content is drawn and the function is   *)
(* applied to it; patch_text holds the content and line_ending the result. *)

MaxChars == 4

\* Contents of up to MaxChars characters over a letter, CR and LF.
RECURSIVE ContentsOf(_)
ContentsOf(n) ==
  IF n = 0 THEN {<<>>}
  ELSE {Append(c, ch) : c \in ContentsOf(n - 1), ch \in {"a", CR, LF}}

DetectContents == UNION {ContentsOf(n) : n \in 0..MaxChars}

InitDetect ==
  /\ patch_text \in DetectContents
  /\ os_linesep \in Platforms
  /\ line_ending = <<>>
  /\ mpc = "content"
  /\ patches = <<>>
  /\ patched = <<>>
  /\ dry_run = FALSE
  /\ files = <<>>
  /\ next_record = 1
  /\ totals = ZeroTotals
  /\ outcome = NoOutcome
  /\ original_lines = <<>>
  /\ offset = 0
  /\ hunk = <<>>
  /\ index = 0
  /\ warnings = 0
  /\ applied = 0
  /\ pc = "idle"
  /\ raised = NoError

\* line_ending = detect_line_ending(content)
Detect ==
  /\ mpc = "content"
  /\ line_ending' = detect_line_ending(patch_text, os_linesep)
  /\ mpc' = "detected"
  /\ UNCHANGED <<patch_text, os_linesep, dry_run, files, patches, next_record,
                 totals, outcome, original_lines, patched, offset, hunk,
                 index, warnings, applied, pc, raised>>

NextDetect == Detect

SpecDetect == InitDetect /\ [][NextDetect]_vars

---------------------------------------------------------------------------
(* Vocabulary of the properties.                                           *)

\* text has no CR and no LF.
NoBreaks(text) == \A i \in 1..Len(text) : text[i] \notin {CR, LF}

\* line is text without CR or LF followed by exactly the terminator e.
EndsWithStyle(line, e) ==
  /\ EndsWith(line, e)
  /\ NoBreaks(SubSeq(line, 1, Len(line) - Len(e)))

\* The text of a line without its terminator.
LineText(line) == RStrip(line)

IsAddition(line) == line # <<>> /\ line[1] = "+"
IsContext(line) == line # <<>> /\ line[1] = " "
IsDeletion(line) == line # <<>> /\ line[1] = "-"

\* How many lines of a hunk body satisfy a test on their first character.
NumAdditions(h) == Cardinality({i \in 1..Len(h.lines) : IsAddition(h.lines[i])})
NumContext(h) == Cardinality({i \in 1..Len(h.lines) : IsContext(h.lines[i])})
NumDeletions(h) == Cardinality({i \in 1..Len(h.lines) : IsDeletion(h.lines[i])})

\* The header numbers of a hunk whose header matches.
OldStartOf(h) == old_start(MatchHeader(h.header))
OldCountOf(h) == old_count(MatchHeader(h.header))

\* An iteration of the loop has just run on hunk' (and spliced or raised).
Iterated == pc = "loop" /\ pc' \in {"iterated", "raised"}

\* An iteration of the loop has just spliced hunk'.
Spliced == pc = "loop" /\ pc' = "iterated"

\* s is t with zero or more items left out.
RECURSIVE IsSubsequence(_, _)
IsSubsequence(s, t) ==
  IF s = <<>> THEN TRUE
  ELSE IF t = <<>> THEN FALSE
  ELSE IF Head(s) = Head(t) THEN IsSubsequence(Tail(s), Tail(t))
  ELSE IsSubsequence(s, Tail(t))

---------------------------------------------------------------------------
(* C1: line-ending fidelity.                                               *)

\* C1 as stated: every line of the sequence that apply_hunks returns ends
\* with the terminator S detected for the original (here: after hunks that
\* changed the file).
C1_EveryLineEndsWithS ==
  (pc = "returned" /\ applied >= 1 /\ patched # original_lines) =>
    \A i \in 1..Len(patched) : EndsWithStyle(patched[i], line_ending)

\* C1 as amended: every line of the accumulating (and so of the returned)
\* sequence either is CR/LF-free text followed by exactly S, or has no CR
\* and no LF at all: the terminators in the output are all S, also those
\* of added lines, while a line that the original or the patch text left
\* unterminated stays unterminated.
C1_Fidelity ==
  \A i \in 1..Len(patched) :
    EndsWithStyle(patched[i], line_ending) \/ NoBreaks(patched[i])

\* The cross-terminator case: the original is CRLF, the patch (normalised
\* to LF by parse_patch) added the line x, and x ends with CRLF.
C1_Witness ==
  /\ pc = "returned"
  /\ applied >= 1
  /\ line_ending = CRLF_ENDING
  /\ Len(original_lines) >= 2
  /\ \E i \in 1..Len(patched) : patched[i] = <<"x">> \o CRLF_ENDING

---------------------------------------------------------------------------
(* C2: net-offset correctness.                                             *)

\* C2: the index an iteration uses is (old_start = 0 ? 0 : old_start - 1)
\* plus the offset, the offset before the iteration is the net line delta
\* of the hunks applied so far (0 before the first), and a splice adds to
\* it the number of replacement lines minus old_count.
C2_NetOffset ==
  [][Iterated /\ MatchHeader(hunk'.header).ok =>
       /\ offset = Len(patched) - Len(original_lines)
       /\ (applied = 0 => offset = 0)
       /\ index' = (IF OldStartOf(hunk') = 0 THEN 0 ELSE OldStartOf(hunk') - 1)
                     + (Len(patched) - Len(original_lines))
       /\ (Spliced =>
             offset' = offset + (NumAdditions(hunk') + NumContext(hunk'))
                         - OldCountOf(hunk'))]_vars

\* A second hunk is spliced at an index that its old-start alone does not
\* give: the first hunk changed the number of lines.
C2_Witness ==
  /\ pc = "iterated"
  /\ applied = 2
  /\ OldStartOf(hunk) >= 1
  /\ index # OldStartOf(hunk) - 1
  /\ offset # 0

---------------------------------------------------------------------------
(* C3: the splice frame.                                                   *)

\* C3: a splice at index i with old-count c yields P[0..i), then the
\* replacement block, then P[i+c..): c lines are replaced and the lines
\* before and after keep their content and order.
C3_SpliceFrame ==
  [][Spliced =>
       LET i == index'
           c == OldCountOf(hunk')
           block == BuildNewLines(hunk'.lines, line_ending)
           n == Len(block)
       IN /\ Len(patched') = Len(patched) - c + n
          /\ \A j \in 1..i : patched'[j] = patched[j]
          /\ \A j \in 1..n : patched'[i + j] = block[j]
          /\ \A j \in (i + c + 1)..Len(patched) : patched'[j - c + n] = patched[j]]_vars

\* One line in the middle of three was replaced by another.
C3_Witness ==
  /\ pc = "iterated"
  /\ applied = 1
  /\ index = 1
  /\ OldCountOf(hunk) = 1
  /\ Len(original_lines) = 3
  /\ Len(patched) = 3
  /\ patched[1] = original_lines[1]
  /\ patched[2] # original_lines[2]
  /\ patched[3] = original_lines[3]

---------------------------------------------------------------------------
(* C4: bounds validation.                                                  *)

\* C4: an iteration on a hunk (whose header matches) raises the
\* out-of-range error exactly when the index is negative, or beyond the
\* length of the accumulating sequence, or old_count > 0 and index +
\* old_count exceeds that length; otherwise it splices and raises nothing.
C4_BoundsValidation ==
  [][Iterated /\ MatchHeader(hunk'.header).ok =>
       LET i == (IF OldStartOf(hunk') = 0 THEN 0 ELSE OldStartOf(hunk') - 1) + offset
           c == OldCountOf(hunk')
           bad == i < 0 \/ i > Len(patched) \/ (c > 0 /\ i + c > Len(patched))
       IN /\ raised' = HunkOutOfRange <=> bad
          /\ ~bad => raised' = NoError /\ pc' = "iterated"
          /\ bad => pc' = "raised" /\ patched' = patched]_vars

\* A hunk was refused because its index is negative.
C4_Witness ==
  /\ pc = "raised"
  /\ raised = HunkOutOfRange
  /\ index < 0

---------------------------------------------------------------------------
(* C5: additive round trip.                                                *)

\* The hunk h adds lines only and describes the lines it covers: it has
\* no deletion, its old-count is the number of its context lines, and its
\* context lines are, terminator style aside, the lines of `lines` from
\* index i on.
AdditiveOn(h, lines, i) ==
  LET ctx == SelectSeq(h.lines, IsContext) IN
  /\ MatchHeader(h.header).ok
  /\ NumDeletions(h) = 0
  /\ OldCountOf(h) = Len(ctx)
  /\ i >= 0 /\ i + Len(ctx) <= Len(lines)
  /\ \A j \in 1..Len(ctx) :
       normalize_line_endings(DropFirst(ctx[j], 1), LF_ENDING)
         = normalize_line_endings(lines[i + j], LF_ENDING)

\* C5 as stated: a single hunk without deletion lines (its old-count the
\* number of its context lines) that adds N lines to a file of L lines
\* yields L + N lines, among which the L original lines, unchanged and in
\* order.
C5_AdditiveAsStated ==
  (/\ pc = "iterated"
   /\ applied = 1
   /\ MatchHeader(hunk.header).ok
   /\ NumDeletions(hunk) = 0
   /\ OldCountOf(hunk) = NumContext(hunk)) =>
    /\ Len(patched) = Len(original_lines) + NumAdditions(hunk)
    /\ IsSubsequence(original_lines, patched)

\* C5 as amended: a single hunk that adds N lines and whose context lines
\* are the lines of the original that it covers (AdditiveOn) yields L + N
\* lines, among which the L original lines, unchanged and in order.
C5_AdditiveRoundTrip ==
  (pc = "iterated" /\ applied = 1 /\ AdditiveOn(hunk, original_lines, index)) =>
    /\ Len(patched) = Len(original_lines) + NumAdditions(hunk)
    /\ IsSubsequence(original_lines, patched)

\* A line was added after a context line that matches the original.
C5_Witness ==
  /\ pc = "iterated"
  /\ applied = 1
  /\ AdditiveOn(hunk, original_lines, index)
  /\ NumAdditions(hunk) = 1
  /\ NumContext(hunk) = 1
  /\ Len(patched) = Len(original_lines) + 1

---------------------------------------------------------------------------
(* C6: an original whose last line has no terminator.                      *)

\* The single hunk h, applied at index i, appends to the original: its
\* body ends with additions that follow the original's last line, and
\* every line of the hunk has a terminator in the patch text.
AppendsAfterLast(h, i) ==
  /\ MatchHeader(h.header).ok
  /\ h.lines # <<>>
  /\ IsAddition(h.lines[Len(h.lines)])
  /\ i + OldCountOf(h) = Len(original_lines)
  /\ OldCountOf(h) = NumContext(h) + NumDeletions(h)
  /\ \A j \in 1..Len(h.lines) : EndsWith(h.lines[j], LF_ENDING)

\* C6: if the original's last line has no terminator and a hunk appends
\* after it, every line of the output ends with the file's terminator:
\* the former last line, the appended lines and the new last line.
C6_UnterminatedLastLine ==
  (/\ pc = "iterated"
   /\ applied = 1
   /\ original_lines # <<>>
   /\ NoBreaks(original_lines[Len(original_lines)])
   /\ AppendsAfterLast(hunk, index)) =>
    \A i \in 1..Len(patched) : EndsWithStyle(patched[i], line_ending)

---------------------------------------------------------------------------
(* C7: a context mismatch is never an error.                               *)

\* Lines that differ from every line of the originals and of the hunks.
DriftLines == {<<"z", LF>>, <<"z">>, <<"b", " ", LF>>}

\* lines with those at the 0-based positions i .. i+c-1 replaced by alt.
WithConsumed(lines, i, c, alt) ==
  [j \in 1..Len(lines) |-> IF i < j /\ j <= i + c THEN alt ELSE lines[j]]

\* C7: an iteration on a hunk that passes the bounds check raises
\* nothing, whether or not the hunk's context and deletion lines equal the
\* lines they cover, and its result is the one it has for any other
\* content of the lines it consumes.
C7_MismatchIsNoError ==
  [][Iterated =>
       \A m \in {MatchHeader(hunk'.header)} :
         m.ok =>
           \A c \in {old_count(m)}, i \in {HunkIndex(old_start(m), offset)} :
             ~OutOfRange(i, c, Len(patched)) =>
               /\ raised' = NoError
               /\ pc' = "iterated"
               /\ c > 0 =>
                    \A alt \in DriftLines :
                      \A r \in {ApplyHunk(WithConsumed(patched, i, c, alt), offset,
                                          hunk', line_ending)} :
                        r.raised = NoError /\ r.patched = patched']_vars

\* A hunk whose context line differs from the line it covers was spliced.
C7_Witness ==
  /\ pc = "iterated"
  /\ warnings >= 1
  /\ NumContext(hunk) >= 1
  /\ raised = NoError

---------------------------------------------------------------------------
(* Vocabulary of the properties of main.                                   *)

\* main is about to run an iteration of its loop, on CurrentRecord.
Iterating == mpc = "loop" /\ next_record <= Len(patches)

CurrentRecord == patches[next_record]

\* The record has a '+++ ' line and its original exists.
Patchable(p) == p.new # None /\ Exists(files, strip_prefix(p.old))

\* A hunk of the record has a header that the pattern of apply_hunks
\* does not match.
HasMalformedHeader(p) ==
  \E i \in 1..Len(p.hunks) : ~MatchHeader(p.hunks[i].header).ok

\* A line of the text starts with @@ and does not match the pattern.
HasMalformedLine(text) ==
  LET lines == splitlines(normalize_line_endings(text, LF_ENDING))
  IN \E i \in 1..Len(lines) :
       StartsWith(lines[i], HUNK_PREFIX) /\ ~MatchHeader(lines[i]).ok

\* The iteration counted the record as processed and as an error, wrote
\* nothing, and the loop goes on with the next record.
FailedThisFileOnly ==
  /\ outcome'.kind = "error"
  /\ files' = files
  /\ totals' = [totals EXCEPT !.processed = @ + 1, !.errors = @ + 1]
  /\ mpc' = "loop"
  /\ next_record' = next_record + 1

---------------------------------------------------------------------------
(* C8: a malformed hunk header.                                            *)

\* C8 as stated: if a line of the patch text starts with @@ and does not
\* match the pattern, parsing fails and the run ends, so that no file of
\* that patch is patched.
C8_MalformedHeaderIsFatal ==
  HasMalformedLine(patch_text) => totals.patched = 0

\* C8 as amended: parse_patch does not test the header: it returns its
\* records, the malformed line being the header of a hunk of its record.
\* The iteration of main on a record with such a hunk, whose original
\* exists, fails for that file only: it is counted as an error, nothing
\* is written for it, and the loop goes on with the next record.
C8_MalformedHeaderFailsItsFile ==
  [][/\ (mpc = "start" /\ HasMalformedLine(patch_text) =>
           /\ mpc' = "loop"
           /\ \E i \in 1..Len(patches') : HasMalformedHeader(patches'[i]))
     /\ (Iterating /\ Patchable(CurrentRecord)
           /\ HasMalformedHeader(CurrentRecord) => FailedThisFileOnly)]_vars

\* A run reached its summary with one file patched and one file failed on
\* its malformed hunk header.
C8_Witness ==
  /\ mpc = "summary"
  /\ HasMalformedLine(patch_text)
  /\ outcome.error = InvalidHunkHeader
  /\ totals.patched = 1
  /\ totals.errors = 1

---------------------------------------------------------------------------
(* C9: error isolation across files.                                       *)

\* C9: whatever records parse_patch produced, no failure on a record
\* aborts the run: main never ends on an exception it does not catch.
C9_NoRecordAbortsTheRun == mpc # "crashed"

---------------------------------------------------------------------------
(* C10: no partial output.                                                 *)

\* apply_hunks raises on the hunks of the record p, whose original can be
\* read.
ApplyFails(p) ==
  /\ ~ReadRaises(files, strip_prefix(p.old))
  /\ TryPatch(files, strip_prefix(p.old), p.hunks, os_linesep).raised # NoError

\* C10: when a hunk of a record fails to apply, the attempt on that file
\* is abandoned: no file is written or created, files written for earlier
\* records included are as they were, the error count grows by one and
\* the patched count does not change.
C10_NoPartialOutput ==
  [][Iterating /\ Patchable(CurrentRecord) /\ ApplyFails(CurrentRecord) =>
       /\ files' = files
       /\ totals'.errors = totals.errors + 1
       /\ totals'.patched = totals.patched
       /\ outcome'.kind = "error"]_vars

\* A record whose first hunk applies and whose second hunk is out of range
\* has just failed, after an earlier record was patched and written.
C10_Witness ==
  /\ mpc = "loop"
  /\ next_record = 3
  /\ Len(patches[2].hunks) = 2
  /\ outcome.error = HunkOutOfRange
  /\ totals.patched = 1
  /\ totals.errors = 1
  /\ NumberedName(NameF, 1) \in DOMAIN files


---------------------------------------------------------------------------
(* Hunk bodies as the unified format defines them.                         *)

\* A line that is a deletion, an addition or a context line by its first
\* character.
IsBodyLine(line) == IsDeletion(line) \/ IsAddition(line) \/ IsContext(line)

\* The body lines among lines: the others (markers) are left out.
RECURSIVE BodyLinesOf(_)
BodyLinesOf(lines) ==
  IF lines = <<>> THEN <<>>
  ELSE IF IsBodyLine(Head(lines)) THEN <<Head(lines)>> \o BodyLinesOf(Tail(lines))
  ELSE BodyLinesOf(Tail(lines))

\* The lines that follow the first hunk header, grouped by the nearest
\* preceding hunk header; groups holds the groups closed so far and the one
\* being filled comes last.
RECURSIVE GroupByHeader(_, _)
GroupByHeader(lines, groups) ==
  IF lines = <<>> THEN groups
  ELSE IF StartsWith(Head(lines), HUNK_PREFIX)
  THEN GroupByHeader(Tail(lines), Append(groups, <<>>))
  ELSE GroupByHeader(Tail(lines),
                     [groups EXCEPT ![Len(groups)] = Append(@, Head(lines))])

\* The groups of body lines of the one file section of a text: what
\* follows its two file-header lines and its first hunk header.
BodyGroups(text) ==
  LET groups == GroupByHeader(DropFirst(splitlines(text), 3), <<<<>>>>)
  IN [k \in 1..Len(groups) |-> BodyLinesOf(groups[k])]

\* The lines of a group that the output keeps: the additions and the
\* context lines, without their first character, ended as the original.
RECURSIVE KeptLines(_, _)
KeptLines(lines, e) ==
  IF lines = <<>> THEN <<>>
  ELSE IF IsDeletion(Head(lines)) THEN KeptLines(Tail(lines), e)
  ELSE <<ConvertLine(Head(lines), e)>> \o KeptLines(Tail(lines), e)

\* C11: every line after a hunk header of a file section that starts with
\* '-', '+' or a space is a body line of the hunk opened by the nearest
\* preceding hunk header, whatever the rest of its text is; the additions
\* and context lines of the first hunk are kept in the replacement block,
\* its deletions are dropped.  (Violated: a line whose text starts with
\* "--- " or "+++ " is read as a file-header line.)
C11_ClassifiedByFirstCharacter ==
  mpc = "built" =>
    \A groups \in {BodyGroups(patch_text)} :
      /\ Len(patches) = 1
      /\ Len(patches[1].hunks) = Len(groups)
      /\ \A k \in 1..Len(groups) :
           k <= Len(patches[1].hunks) =>
             BodyLinesOf(patches[1].hunks[k].lines) = groups[k]
      /\ patched = KeptLines(groups[1], line_ending)


---------------------------------------------------------------------------
(* The counts of a hunk header against the hunk body.                      *)

\* The new-count of a hunk whose header matches.
NewCountOf(h) == new_count(MatchHeader(h.header))

\* C12: a hunk that parse_patch produced and apply_hunks applied without
\* error has a header whose old-count is the number of context and
\* deletion lines of its body and whose new-count is the number of context
\* and addition lines, an omitted count being 1.  (Violated: the counts of
\* the header are never compared with the body.)
C12_HeaderCountsAgreeWithBody ==
  pc = "iterated" =>
    /\ OldCountOf(hunk) = NumContext(hunk) + NumDeletions(hunk)
    /\ NewCountOf(hunk) = NumContext(hunk) + NumAdditions(hunk)


---------------------------------------------------------------------------
(* Line-ending detection.                                                  *)

\* The terminators of a text counted position by position: the CR LF
\* pairs, the LF not preceded by CR and the CR not followed by LF.
NumCRLF(text) ==
  Cardinality({i \in 1..Len(text) - 1 : text[i] = CR /\ text[i + 1] = LF})
NumLoneLF(text) ==
  Cardinality({i \in 1..Len(text) : text[i] = LF /\ (i = 1 \/ text[i - 1] # CR)})
NumLoneCR(text) ==
  Cardinality({i \in 1..Len(text) :
                 text[i] = CR /\ (i = Len(text) \/ text[i + 1] # LF)})

\* The styles in the order of preference, and the count of each in a text.
StyleOrder == <<CRLF_ENDING, LF_ENDING, CR_ENDING>>
StyleCounts(text) == <<NumCRLF(text), NumLoneLF(text), NumLoneCR(text)>>

\* C13: detect_line_ending returns the platform terminator for an empty
\* content; for any other content it returns the style whose count is the
\* highest, and among styles of equal count the first of CRLF, LF, CR.
C13_MostFrequentStyle ==
  mpc = "detected" =>
    IF patch_text = <<>> THEN line_ending = os_linesep
    ELSE \A n \in {StyleCounts(patch_text)} :
           \E k \in 1..3 :
             /\ line_ending = StyleOrder[k]
             /\ \A j \in 1..3 : n[j] <= n[k]
             /\ \A j \in 1..(k - 1) : n[j] < n[k]

\* CRLF was returned for a content with as many lone LF as CR LF pairs, on
\* a platform whose terminator is not CRLF.
C13_Witness ==
  /\ mpc = "detected"
  /\ NumCRLF(patch_text) = 1
  /\ NumLoneLF(patch_text) = 1
  /\ line_ending = CRLF_ENDING
  /\ os_linesep # CRLF_ENDING


---------------------------------------------------------------------------
(* Allocation of the output file.                                          *)

\* The numbered siblings of an original that a run of up to MaxRecords
\* records can allocate, one of them being taken before the run.
Siblings(original) == {NumberedName(original, k) : k \in 1..(MaxRecords + 1)}

\* C14: the name that next_numbered_filename returns does not exist when
\* it is returned; an iteration of a non-dry run that patches a record
\* creates one file, a numbered sibling of the original that did not
\* exist; and no step of the run removes or changes a file that exists,
\* original or earlier output.
C14_NeverOverwrites ==
  [][/\ \A q \in DOMAIN files : q \in DOMAIN files' /\ files'[q] = files[q]
     /\ Iterating /\ Patchable(CurrentRecord) =>
          \A original \in {strip_prefix(CurrentRecord.old)} :
            /\ ~Exists(files, next_numbered_filename(files, original))
            /\ next_numbered_filename(files, original) \in Siblings(original)
            /\ outcome'.kind = "patched" =>
                 /\ ~dry_run
                 /\ DOMAIN files' =
                      DOMAIN files \cup {next_numbered_filename(files, original)}]_vars

\* The second record for the same original was written to the third
\* numbered name: the first was there before the run and the second holds
\* the output of the first record.
C14_Witness ==
  /\ outcome.kind = "patched"
  /\ totals.patched = 2
  /\ NumberedName(NameF, 3) \in DOMAIN files
  /\ files[NumberedName(NameF, 1)].content = <<"o", LF>>


---------------------------------------------------------------------------
(* Dry run.                                                                *)

\* C15: no step of a run with --dry-run creates, removes or changes a
\* file: whatever the patch and the originals, the files and what they
\* hold stay as they were before the run.
C15_DryRunWritesNothing ==
  [][dry_run => files' = files]_vars

\* A dry run reached its summary after a record applied cleanly: the
\* output that a real run would have written was announced, and is absent.
C15_Witness ==
  /\ dry_run
  /\ mpc = "summary"
  /\ outcome.kind = "dry run"
  /\ NameF \in DOMAIN files
  /\ NumberedName(NameF, 1) \notin DOMAIN files


---------------------------------------------------------------------------
(* Failures of apply_hunks.                                                *)

---------------------------------------------------------------------------
(* The counters of the summary.                                            *)

\* The records that fell in one of the three outcomes.
Settled(counts) == counts.patched + counts.skipped + counts.errors

\* The counters between iterations of a run that writes, and at its
\* summary.
TallyHolds ==
  ~dry_run =>
    /\ Settled(totals) <= totals.processed
    /\ totals.processed <= Len(patches)
    /\ (mpc = "summary" =>
          /\ totals.processed = Len(patches)
          /\ totals.processed = Settled(totals))

\* C17: in a run without --dry-run, an iteration that does not stop the
\* run adds one to processed and one to exactly one of patched, skipped
\* and errors; so patched + skipped + errors never exceeds processed, and
\* at the summary processed is the number of records and the sum of the
\* three.
C17_TallyAddsUp ==
  [][/\ TallyHolds
     /\ TallyHolds'
     /\ (~dry_run /\ Iterating /\ mpc' # "crashed" =>
           /\ totals'.processed = totals.processed + 1
           /\ Settled(totals') = Settled(totals) + 1
           /\ totals'.patched >= totals.patched
           /\ totals'.skipped >= totals.skipped
           /\ totals'.errors >= totals.errors)]_vars

\* The summary of a run that writes, with two records: one was patched
\* and one failed.
C17_Witness ==
  /\ ~dry_run
  /\ mpc = "summary"
  /\ totals.processed = 2
  /\ totals.patched = 1
  /\ totals.errors = 1
  /\ totals.skipped = 0

=============================================================================
